---- MODULE Spec2Model ----
(***************************************************************************)
(* A model of the generic in-memory DataStore (class DataStore and its     *)
(* TransactionalProxy).  The store owns one insertion-ordered Map from key *)
(* to record; a transaction copies the Map, runs the caller's body against *)
(* the live store and, when the body throws, points the store at the copy. *)
(*                                                                         *)
(* JavaScript values are tagged records [kind, n, s, o]: kind is the       *)
(* runtime kind, n a number or an instant, s a string as a sequence of     *)
(* one-character strings, o the identity of an object (0 for primitives).  *)
(* Map objects live in a heap so that "this.map = snapshot" and the        *)
(* in-place mutations of set/delete/clear keep their reference semantics.  *)
(***************************************************************************)
EXTENDS Integers, Sequences, FiniteSets, TLC

VARIABLES
    heap,        \* the Map objects: object id -> sequence of [key, value] entries
    map,         \* DataStore.map: the id of the Map object the store points at
    autoIdSeed,  \* DataStore.autoIdSeed
    txStack,     \* the open transaction() calls, innermost last
    thrown,      \* the error in flight (NoError when none)
    ret,         \* what the last call returned
    logged,      \* the logger events emitted by the last step
    lastOp,      \* the last call: its name and arguments
    closed,      \* history: the transaction() call the last step ended, if any
    generated,   \* history: the keys generateId has returned, in order
    held,        \* the TransactionalProxy the caller took out of a body, if any
    via          \* the call the last step made on the proxy, if it made one

vars ==
    <<heap, map, autoIdSeed, txStack, thrown, ret, logged, lastOp, closed, generated,
      held, via>>

----------------------------------------------------------------------------
(* Bounds of the model. *)

\* create is explored while the Map holds fewer entries
MaxRecords == 2

\* keyless create is explored while autoIdSeed <= MaxSeed
MaxSeed == MaxRecords

\* transaction() calls open at once, and mutating calls made in their bodies
MaxBody == 2

----------------------------------------------------------------------------
(* JavaScript values. *)

Str(s)      == [kind |-> "str",   n |-> 0, s |-> s,    o |-> 0]
Num(n)      == [kind |-> "num",   n |-> n, s |-> <<>>, o |-> 0]
Bool(b)     == [kind |-> "bool",  n |-> IF b THEN 1 ELSE 0, s |-> <<>>, o |-> 0]
DateObj(t, o) == [kind |-> "date", n |-> t, s |-> <<>>, o |-> o]
Undefined   == [kind |-> "undef", n |-> 0, s |-> <<>>, o |-> 0]
Null        == [kind |-> "null",  n |-> 0, s |-> <<>>, o |-> 0]

\* item[k]: a property that is not there reads as undefined
Field(item, k) == IF k \in DOMAIN item THEN item[k] ELSE Undefined

\* { ...a, ...b }: b's properties win
Spread(a, b) ==
    [f \in DOMAIN a \cup DOMAIN b |-> IF f \in DOMAIN b THEN b[f] ELSE a[f]]

keyName == "id"

----------------------------------------------------------------------------
(* Number.prototype.toString(36) and the decimal conversion of a template  *)
(* literal, digit by digit.                                                *)

Digits36 ==
    << "0", "1", "2", "3", "4", "5", "6", "7", "8", "9", "a", "b", "c", "d", "e",
       "f", "g", "h", "i", "j", "k", "l", "m", "n", "o", "p", "q", "r", "s", "t",
       "u", "v", "w", "x", "y", "z" >>

RECURSIVE ToStringRadix(_, _)
ToStringRadix(n, radix) ==
    IF n < radix THEN << Digits36[n + 1] >>
    ELSE ToStringRadix(n \div radix, radix) \o << Digits36[(n % radix) + 1] >>

\* an id made of the timestamp alone
generateIdNoSeed(now, seed) ==
    Str(<<"i", "d", "_">> \o ToStringRadix(now, 36))

\* `id_${Date.now().toString(36)}_${this.autoIdSeed++}`, the value returned
generateId(now, seed) ==
    Str(<<"i", "d", "_">> \o ToStringRadix(now, 36) \o <<"_">> \o ToStringRadix(seed, 10))

----------------------------------------------------------------------------
(* Map: an insertion-ordered sequence of entries. *)

MapHas(es, k) == \E i \in 1..Len(es) : es[i].key = k

MapIndex(es, k) == CHOOSE i \in 1..Len(es) : es[i].key = k

\* Map.prototype.get: <<record>> when present, <<>> for undefined
MapGet(es, k) == IF MapHas(es, k) THEN << es[MapIndex(es, k)].value >> ELSE <<>>

\* a set that never finds the key it is given
MapSetAppends(es, k, v) == Append(es, [key |-> k, value |-> v])

\* a set that moves the key it is given to the end
MapSetMovesLast(es, k, v) ==
    Append(SelectSeq(es, LAMBDA e : e.key # k), [key |-> k, value |-> v])

\* Map.prototype.set: an existing key keeps its position, a new key goes last
MapSet(es, k, v) ==
    IF MapHas(es, k)
    THEN [es EXCEPT ![MapIndex(es, k)] = [key |-> k, value |-> v]]
    ELSE Append(es, [key |-> k, value |-> v])

\* Map.prototype.delete
MapDelete(es, k) == SelectSeq(es, LAMBDA e : e.key # k)

\* Array.from(map.values())
MapValues(es) == [i \in 1..Len(es) |-> es[i].value]

MapKeys(es) == {es[i].key : i \in 1..Len(es)}

----------------------------------------------------------------------------
(* Errors, return values and logger events, each of one shape. *)

NoError == [message |-> "", key |-> Undefined]
DuplicateKeyError(k) == [message |-> "Duplicate key: ", key |-> k]
NotFoundError == [message |-> "NotFound", key |-> Undefined]
\* an error the caller's transaction body raises itself
BodyError(m) == [message |-> m, key |-> Undefined]

RetNone      == [tag |-> "none",      recs |-> <<>>,  b |-> FALSE, v |-> 0]
RetRecord(r) == [tag |-> "record",    recs |-> <<r>>, b |-> FALSE, v |-> 0]
RetUndefined == [tag |-> "undefined", recs |-> <<>>,  b |-> FALSE, v |-> 0]
RetBool(b)   == [tag |-> "boolean",   recs |-> <<>>,  b |-> b,     v |-> 0]
RetList(rs)  == [tag |-> "list",      recs |-> rs,    b |-> FALSE, v |-> 0]
RetValue(v)  == [tag |-> "value",     recs |-> <<>>,  b |-> FALSE, v |-> v]

\* logger.<level>(event, payload)
\* seen: the entries of this.map when the logger is called
LogEvent(level, event, key, recs, existed, err, seen) ==
    [level |-> level, event |-> event, key |-> key, recs |-> recs,
     existed |-> existed, err |-> err, seen |-> seen]

NoCall == [op |-> "init", key |-> Undefined, item |-> <<>>, now |-> 0, seed |-> 0]
Call(op, key, item, now, seed) ==
    [op |-> op, key |-> key, item |-> <<item>>, now |-> now, seed |-> seed]
CallK(op, key) == [op |-> op, key |-> key, item |-> <<>>, now |-> 0, seed |-> 0]

----------------------------------------------------------------------------
(* The store's state, read through the reference this.map. *)

Entries == heap[map]
Depth == Len(txStack)
Top == txStack[Depth]

\* the object ids the store and its open transactions still reference
Live(m, stack) == {m} \cup {stack[i].snapshot : i \in 1..Len(stack)}

\* garbage collection: objects nothing references leave the heap
Collect(h, m, stack) == [o \in DOMAIN h \cap Live(m, stack) |-> h[o]]

FreshId(h) == CHOOSE o \in 1..(Cardinality(DOMAIN h) + 1) : o \notin DOMAIN h

\* mutating calls recorded in the open transaction bodies
RECURSIVE BodyOps(_)
BodyOps(stack) ==
    IF stack = <<>> THEN 0 ELSE Len(stack[Len(stack)].ops) + BodyOps(SubSeq(stack, 1, Len(stack) - 1))

\* a successful mutating call is noted in the innermost open transaction body
Note(stack, call) ==
    IF stack = <<>> THEN stack
    ELSE [stack EXCEPT ![Len(stack)].ops = Append(@, call)]

\* room for one more mutating call in the open transaction bodies
OpsRoom == BodyOps(txStack) < MaxBody

\* room for one more transaction() call or mutating call in a body, the open
\* transactions and their calls counted together
BodyRoom == Depth + BodyOps(txStack) < MaxBody

\* a call made outside a transaction, or inside one with room left
Budgeted == Depth > 0 => BodyRoom

CanMutate == thrown = NoError /\ (Depth > 0 => OpsRoom)

----------------------------------------------------------------------------
(* create *)

createGenerates(item) == Field(item, keyName).kind \in {"undef", "null"}

createKey(item, now, seed) ==
    IF createGenerates(item) THEN generateId(now, seed) ELSE Field(item, keyName)

\* a record built without the resolved key
createRecordUnkeyed(item, now, seed) == item

\* { ...item, [this.keyName]: finalKey }
createRecord(item, now, seed) ==
    Spread(item, [f \in {keyName} |-> createKey(item, now, seed)])

\* a create that does not look for the key
createThrowsNever(es, item, now, seed) == FALSE

createThrows(es, item, now, seed) == MapHas(es, createKey(item, now, seed))

createMap(es, item, now, seed) ==
    IF createThrows(es, item, now, seed) THEN es
    ELSE MapSet(es, createKey(item, now, seed), createRecord(item, now, seed))

create(item, now) ==
    LET key == createKey(item, now, autoIdSeed)
        record == createRecord(item, now, autoIdSeed)
        call == Call("create", Undefined, item, now, autoIdSeed)
    IN  /\ CanMutate
        /\ Len(Entries) < MaxRecords
        /\ createGenerates(item) => autoIdSeed <= MaxSeed
        /\ autoIdSeed' = IF createGenerates(item) THEN autoIdSeed + 1 ELSE autoIdSeed
        /\ generated' = IF createGenerates(item) THEN Append(generated, key) ELSE generated
        /\ UNCHANGED held
        /\ lastOp' = call
        /\ map' = map
        /\ closed' = <<>>
        /\ IF createThrows(Entries, item, now, autoIdSeed)
           THEN /\ thrown' = DuplicateKeyError(key)
                /\ ret' = RetNone
                /\ logged' = <<>>
                /\ UNCHANGED <<heap, txStack>>
           ELSE /\ heap' = [heap EXCEPT ![map] = createMap(@, item, now, autoIdSeed)]
                /\ logged' = << LogEvent("info", "create", key, <<record>>, FALSE, NoError,
                                          heap'[map]) >>
                /\ ret' = RetRecord(record)
                /\ thrown' = NoError
                /\ txStack' = Note(txStack, call)

----------------------------------------------------------------------------
(* get *)

\* a get that logs as the mutating calls do
getLogInfo(key) ==
    << LogEvent("info", "get", key, <<>>, FALSE, NoError, Entries) >>

\* this.logger.debug('get', key), before the Map is read
getLog(key) ==
    << LogEvent("debug", "get", key, <<>>, FALSE, NoError, Entries) >>

get(key) ==
    /\ thrown = NoError
    /\ logged' = getLog(key)
    /\ ret' = IF MapHas(Entries, key) THEN RetRecord(MapGet(Entries, key)[1]) ELSE RetUndefined
    /\ lastOp' = CallK("get", key)
    /\ closed' = <<>>
    /\ UNCHANGED <<heap, map, autoIdSeed, generated, held, txStack, thrown>>

----------------------------------------------------------------------------
(* update *)

\* an update that finds nothing
updateThrowsAlways(es, key) == TRUE

updateThrows(es, key) == MapGet(es, key) = <<>>

\* an update that stores the patch in place of the merged record
updateRecordPatchOnly(es, key, patch) == patch

updateRecord(es, key, patch) == Spread(MapGet(es, key)[1], patch)

updateMap(es, key, patch) ==
    IF updateThrows(es, key) THEN es ELSE MapSet(es, key, updateRecord(es, key, patch))

update(key, patch) ==
    LET call == Call("update", key, patch, 0, 0)
    IN  /\ CanMutate
        /\ lastOp' = call
        /\ closed' = <<>>
        /\ UNCHANGED <<map, autoIdSeed, generated, held>>
        /\ IF updateThrows(Entries, key)
           THEN /\ thrown' = NotFoundError
                /\ ret' = RetNone
                /\ logged' = <<>>
                /\ UNCHANGED <<heap, txStack>>
           ELSE /\ heap' = [heap EXCEPT ![map] = updateMap(@, key, patch)]
                /\ logged' = << LogEvent("info", "update", key, <<patch>>, FALSE, NoError,
                                          heap'[map]) >>
                /\ ret' = RetRecord(updateRecord(Entries, key, patch))
                /\ thrown' = NoError
                /\ txStack' = Note(txStack, call)

----------------------------------------------------------------------------
(* delete *)

\* a delete that removes nothing
deleteMapKeeps(es, key) == es

deleteMap(es, key) == MapDelete(es, key)

delete(key) ==
    LET existed == MapHas(Entries, key)
        call == CallK("delete", key)
    IN  /\ CanMutate
        /\ heap' = [heap EXCEPT ![map] = deleteMap(@, key)]
        /\ logged' = << LogEvent("info", "delete", key, <<>>, existed, NoError, heap'[map]) >>
        /\ ret' = RetBool(existed)
        /\ lastOp' = call
        /\ txStack' = Note(txStack, call)
        /\ closed' = <<>>
        /\ UNCHANGED <<map, autoIdSeed, generated, held, thrown>>

----------------------------------------------------------------------------
(* clear *)

clearMap(es) == <<>>

clear ==
    LET call == CallK("clear", Undefined)
    IN  /\ CanMutate
        /\ heap' = [heap EXCEPT ![map] = clearMap(@)]
        /\ logged' = << LogEvent("info", "clear", Undefined, <<>>, FALSE, NoError, heap'[map]) >>
        /\ ret' = RetUndefined
        /\ lastOp' = call
        /\ txStack' = Note(txStack, call)
        /\ closed' = <<>>
        /\ UNCHANGED <<map, autoIdSeed, generated, held, thrown>>

----------------------------------------------------------------------------
(* JavaScript's comparisons, as far as the matcher and the comparator use  *)
(* them.  Strings are over the characters of Chars, and a string operand   *)
(* is either empty, all digits or all letters.                             *)

\* the characters in code-unit order
Chars ==
    << "0", "1", "2", "3", "4", "5", "6", "7", "8", "9", "_", "a", "b", "c", "d",
       "e", "f", "g", "h", "i", "j", "k", "l", "m", "n", "o", "p", "q", "r", "s",
       "t", "u", "v", "w", "x", "y", "z" >>

CharCode(c) == CHOOSE i \in 1..Len(Chars) : Chars[i] = c

IsDigit(c) == \E i \in 1..10 : Digits36[i] = c

DigitValue(c) == (CHOOSE i \in 1..10 : Digits36[i] = c) - 1

RECURSIVE ParseDigits(_)
ParseDigits(s) ==
    IF s = <<>> THEN 0
    ELSE ParseDigits(SubSeq(s, 1, Len(s) - 1)) * 10 + DigitValue(s[Len(s)])

NaN == [nan |-> TRUE, n |-> 0]
Number(n) == [nan |-> FALSE, n |-> n]

\* ToNumber: a Date goes through valueOf, a string through its numeric text
ToNumber(v) ==
    CASE v.kind = "num"   -> Number(v.n)
      [] v.kind = "date"  -> Number(v.n)
      [] v.kind = "bool"  -> Number(v.n)
      [] v.kind = "null"  -> Number(0)
      [] v.kind = "undef" -> NaN
      [] v.kind = "str"   ->
            IF \A i \in 1..Len(v.s) : IsDigit(v.s[i]) THEN Number(ParseDigits(v.s)) ELSE NaN

\* ToString of the operand of includes, startsWith and endsWith
ToStringValue(v) ==
    CASE v.kind = "str"   -> v.s
      [] v.kind = "num"   ->
            IF v.n < 0 THEN <<"-">> \o ToStringRadix(0 - v.n, 10) ELSE ToStringRadix(v.n, 10)
      [] v.kind = "bool"  ->
            IF v.n = 1 THEN <<"t", "r", "u", "e">> ELSE <<"f", "a", "l", "s", "e">>
      [] v.kind = "null"  -> <<"n", "u", "l", "l">>
      [] v.kind = "undef" -> <<"u", "n", "d", "e", "f", "i", "n", "e", "d">>

\* two strings compared code unit by code unit
RECURSIVE StringLess(_, _)
StringLess(a, b) ==
    IF b = <<>> THEN FALSE
    ELSE IF a = <<>> THEN TRUE
    ELSE IF a[1] = b[1] THEN StringLess(Tail(a), Tail(b))
    ELSE CharCode(a[1]) < CharCode(b[1])

\* a === b: primitives by value, objects by identity
StrictEquals(a, b) == a = b

\* a < b: "true", "false" or "undefined" (a NaN on either side)
LessThan(a, b) ==
    IF a.kind = "str" /\ b.kind = "str"
    THEN IF StringLess(a.s, b.s) THEN "true" ELSE "false"
    ELSE IF ToNumber(a).nan \/ ToNumber(b).nan THEN "undefined"
    ELSE IF ToNumber(a).n < ToNumber(b).n THEN "true" ELSE "false"

Lt(a, b)  == LessThan(a, b) = "true"
Gt(a, b)  == LessThan(b, a) = "true"
Lte(a, b) == LessThan(b, a) = "false"
Gte(a, b) == LessThan(a, b) = "false"

\* String.prototype.startsWith, endsWith, includes
StartsWith(s, t) == Len(t) <= Len(s) /\ SubSeq(s, 1, Len(t)) = t
EndsWith(s, t) == Len(t) <= Len(s) /\ SubSeq(s, Len(s) - Len(t) + 1, Len(s)) = t
Includes(s, t) == \E i \in 0..(Len(s) - Len(t)) : SubSeq(s, i + 1, i + Len(t)) = t

----------------------------------------------------------------------------
(* Filters.  A filter is [nil, and, or, fields]: nil for a filter that is  *)
(* undefined, and/or the $and/$or arrays (<<>> when the property is not    *)
(* there, <<list>> when it is), fields the other properties in key order,  *)
(* each [name, ff] with ff <<>> for null or <<operators>>.  An operator's  *)
(* operand is [arr, vs]: one value, or an array of values.                 *)

Scalar(v) == [arr |-> FALSE, vs |-> <<v>>]
Array(vs) == [arr |-> TRUE, vs |-> vs]

\* ff.op !== undefined
HasOp(ff, op) == op \in DOMAIN ff /\ ff[op] # Scalar(Undefined)

\* val !== ff.eq does not hold
EqOperand(val, operand) == ~operand.arr /\ StrictEquals(val, operand.vs[1])

\* const [a, b] = operand: throws unless the operand is iterable
Destructures(operand) == operand.arr \/ operand.vs[1].kind = "str"

Element(operand, i) ==
    IF operand.arr
    THEN (IF i <= Len(operand.vs) THEN operand.vs[i] ELSE Undefined)
    ELSE (IF i <= Len(operand.vs[1].s) THEN Str(<<operand.vs[1].s[i]>>) ELSE Undefined)

\* x.getTime() is callable
HasGetTime(operand) == ~operand.arr /\ operand.vs[1].kind = "date"
HasGetTimeValue(v) == v.kind = "date"

\* the checks of one branch run in order: the first that does not pass decides
RECURSIVE FirstNotPass(_)
FirstNotPass(checks) ==
    IF checks = <<>> THEN "pass"
    ELSE IF Head(checks) # "pass" THEN Head(checks)
    ELSE FirstNotPass(Tail(checks))

Check(present, holds) == IF present /\ ~holds THEN "fail" ELSE "pass"

stringChecks(val, ff) ==
    FirstNotPass(<<
        Check(HasOp(ff, "eq"), EqOperand(val, ff["eq"])),
        Check(HasOp(ff, "contains"), Includes(val.s, ToStringValue(ff["contains"].vs[1]))),
        Check(HasOp(ff, "startsWith"), StartsWith(val.s, ToStringValue(ff["startsWith"].vs[1]))),
        Check(HasOp(ff, "endsWith"), EndsWith(val.s, ToStringValue(ff["endsWith"].vs[1]))) >>)

\* a between that leaves both ends out
numberBetweenExclusive(val, operand) ==
    IF ~Destructures(operand) THEN "throw"
    ELSE IF Gt(val, Element(operand, 1)) /\ Lt(val, Element(operand, 2)) THEN "pass"
    ELSE "fail"

numberBetween(val, operand) ==
    IF ~Destructures(operand) THEN "throw"
    ELSE IF Gte(val, Element(operand, 1)) /\ Lte(val, Element(operand, 2)) THEN "pass"
    ELSE "fail"

numberCompare(val, ff) ==
    <<  Check(HasOp(ff, "lt"), Lt(val, ff["lt"].vs[1])),
        Check(HasOp(ff, "lte"), Lte(val, ff["lte"].vs[1])),
        Check(HasOp(ff, "gt"), Gt(val, ff["gt"].vs[1])),
        Check(HasOp(ff, "gte"), Gte(val, ff["gte"].vs[1])) >>

numberChecks(val, ff) ==
    FirstNotPass(
        << Check(HasOp(ff, "eq"), EqOperand(val, ff["eq"])) >>
        \o numberCompare(val, ff)
        \o << IF HasOp(ff, "between") THEN numberBetween(val, ff["between"]) ELSE "pass" >>)

dateBetween(val, operand) ==
    IF ~Destructures(operand) THEN "throw"
    ELSE IF ~HasGetTimeValue(Element(operand, 1)) THEN "throw"
    ELSE IF ~(val.n >= Element(operand, 1).n) THEN "fail"
    ELSE IF ~HasGetTimeValue(Element(operand, 2)) THEN "throw"
    ELSE IF val.n <= Element(operand, 2).n THEN "pass"
    ELSE "fail"

dateCheck(present, operand, holds) ==
    IF ~present THEN "pass"
    ELSE IF ~HasGetTime(operand) THEN "throw"
    ELSE IF holds THEN "pass" ELSE "fail"

dateChecks(val, ff) ==
    FirstNotPass(<<
        IF HasOp(ff, "eq")
            THEN dateCheck(TRUE, ff["eq"], val.n = ff["eq"].vs[1].n) ELSE "pass",
        IF HasOp(ff, "before")
            THEN dateCheck(TRUE, ff["before"], val.n < ff["before"].vs[1].n) ELSE "pass",
        IF HasOp(ff, "after")
            THEN dateCheck(TRUE, ff["after"], val.n > ff["after"].vs[1].n) ELSE "pass",
        IF HasOp(ff, "between") THEN dateBetween(val, ff["between"]) ELSE "pass" >>)

\* a fallback branch that compares as the number branch does
otherChecksAsNumber(val, ff) == numberChecks(val, ff)

otherChecks(val, ff) ==
    Check(HasOp(ff, "eq"), EqOperand(val, ff["eq"]))

\* the body of the loop over Object.keys(filter) for one key
fieldCheck(item, entry) ==
    LET val == Field(item, entry.name)
    IN  IF entry.ff = <<>> THEN "pass"
        ELSE CASE val.kind = "str"  -> stringChecks(val, entry.ff[1])
               [] val.kind = "num"  -> numberChecks(val, entry.ff[1])
               [] val.kind = "date" -> dateChecks(val, entry.ff[1])
               [] OTHER             -> otherChecks(val, entry.ff[1])

\* a test that takes a filter of empty groups for a filter without keys
IsEmptyFilterGroups(filter) ==
    \/ filter.nil
    \/ /\ filter.and \in {<<>>, << <<>> >>}
       /\ filter.or \in {<<>>, << <<>> >>}
       /\ filter.fields = <<>>

IsEmptyFilter(filter) == filter.nil \/ (filter.and = <<>> /\ filter.or = <<>> /\ filter.fields = <<>>)

\* every: the first sub-filter that does not match decides ("true" when none)
RECURSIVE EveryResult(_)
EveryResult(results) ==
    IF results = <<>> THEN "true"
    ELSE IF Head(results) # "true" THEN Head(results)
    ELSE EveryResult(Tail(results))

\* some: the first sub-filter that matches or throws decides ("false" when none)
RECURSIVE SomeResult(_)
SomeResult(results) ==
    IF results = <<>> THEN "false"
    ELSE IF Head(results) # "false" THEN Head(results)
    ELSE SomeResult(Tail(results))

\* matchesFilter(item, filter): "true", "false", or "throw" for a TypeError
RECURSIVE matchesFilter(_, _)
matchesFilter(item, filter) ==
    IF IsEmptyFilter(filter) THEN "true"
    ELSE
      LET every == IF filter.and = <<>> THEN "true"
                   ELSE EveryResult([i \in 1..Len(filter.and[1]) |->
                                        matchesFilter(item, filter.and[1][i])])
          some  == IF filter.or = <<>> THEN "true"
                   ELSE SomeResult([i \in 1..Len(filter.or[1]) |->
                                        matchesFilter(item, filter.or[1][i])])
          named == FirstNotPass([i \in 1..Len(filter.fields) |->
                                        fieldCheck(item, filter.fields[i])])
      IN  IF every # "true" THEN every
          ELSE IF some # "true" THEN some
          ELSE IF named = "pass" THEN "true"
          ELSE IF named = "fail" THEN "false"
          ELSE "throw"

----------------------------------------------------------------------------
(* list and query: the comparator, Array.prototype.sort and slice.         *)
(* Options are [sortBy, sortDir, limit, offset], each <<>> when absent.    *)

TypeError == [message |-> "TypeError", key |-> Undefined]

NoOptions == [sortBy |-> <<>>, sortDir |-> <<>>, limit |-> <<>>, offset |-> <<>>]

\* options.sortDir === 'desc' ? -1 : 1
direction(options) == IF options.sortDir = <<"desc">> THEN -1 ELSE 1

\* the comparator handed to sort
compare(a, b, options) ==
    LET va == Field(a, options.sortBy[1])
        vb == Field(b, options.sortBy[1])
    IN  IF StrictEquals(va, vb) THEN 0
        ELSE (IF Gt(va, vb) THEN 1 ELSE -1) * direction(options)

\* ECMAScript's consistent comparator over the elements of arr
Consistent(arr, options) ==
    LET c(i, j) == compare(arr[i], arr[j], options)
        I == 1..Len(arr)
    IN  /\ \A i \in I : c(i, i) = 0
        /\ \A i, j \in I : /\ (c(i, j) = 0) = (c(j, i) = 0)
                           /\ (c(i, j) < 0) = (c(j, i) > 0)
        /\ \A i, j, k \in I : /\ (c(i, j) = 0 /\ c(j, k) = 0) => c(i, k) = 0
                              /\ (c(i, j) < 0 /\ c(j, k) < 0) => c(i, k) < 0
                              /\ (c(i, j) < 0 /\ c(j, k) = 0) => c(i, k) < 0
                              /\ (c(i, j) = 0 /\ c(j, k) < 0) => c(i, k) < 0

\* x goes behind the last element that does not sort after it
RECURSIVE InsertStable(_, _, _)
InsertStable(sorted, x, options) ==
    IF sorted = <<>> THEN <<x>>
    ELSE IF compare(sorted[Len(sorted)], x, options) > 0
         THEN Append(InsertStable(SubSeq(sorted, 1, Len(sorted) - 1), x, options),
                     sorted[Len(sorted)])
         ELSE Append(sorted, x)

RECURSIVE StableSort(_, _)
StableSort(arr, options) ==
    IF arr = <<>> THEN <<>>
    ELSE InsertStable(StableSort(SubSeq(arr, 1, Len(arr) - 1), options), arr[Len(arr)], options)

Orderings(arr) ==
    { [i \in 1..Len(arr) |-> arr[p[i]]] :
        p \in { q \in [1..Len(arr) -> 1..Len(arr)] :
                  \A i, j \in 1..Len(arr) : i # j => q[i] # q[j] } }

\* arr.sort(comparator): the stable order of a consistent comparator; with
\* an inconsistent one the order is implementation-defined
sortOutcomes(arr, options) ==
    IF options.sortBy = <<>> THEN {arr}
    ELSE IF Consistent(arr, options) THEN {StableSort(arr, options)}
    ELSE Orderings(arr)

Min(a, b) == IF a < b THEN a ELSE b
Max(a, b) == IF a > b THEN a ELSE b

\* the index Array.prototype.slice makes of an argument
Relative(i, len) == IF i < 0 THEN Max(len + i, 0) ELSE Min(i, len)

\* arr.slice(start, end)
slice(arr, start, end) ==
    SubSeq(arr, Relative(start, Len(arr)) + 1, Relative(end, Len(arr)))

\* a slice whose offset counts from one
paginateFromOne(arr, options) ==
    LET offset == IF options.offset = <<>> THEN 0 ELSE options.offset[1]
        limit == IF options.limit = <<>> THEN Len(arr) ELSE options.limit[1]
    IN  slice(arr, offset - 1, offset - 1 + limit)

\* a slice that takes the limit for the end index
paginateEndIsLimit(arr, options) ==
    LET offset == IF options.offset = <<>> THEN 0 ELSE options.offset[1]
        limit == IF options.limit = <<>> THEN Len(arr) ELSE options.limit[1]
    IN  slice(arr, offset, limit)

\* offset = options?.offset ?? 0; limit = options?.limit ?? arr.length
paginate(arr, options) ==
    LET offset == IF options.offset = <<>> THEN 0 ELSE options.offset[1]
        limit == IF options.limit = <<>> THEN Len(arr) ELSE options.limit[1]
    IN  slice(arr, offset, offset + limit)

\* a sort that reorders the Map's own entries as it reorders the array
mapAfterSortReordered(es, arr) ==
    IF Len(arr) = Len(es)
    THEN [i \in 1..Len(es) |-> CHOOSE e \in {es[j] : j \in 1..Len(es)} : e.value = arr[i]]
    ELSE es

\* the Map once arr has been sorted: Array.from(...) and filter(...) made arr
\* a new array, so sort, which reorders arr in place, leaves the Map alone
mapAfterSort(es, arr) == es

list(options) ==
    /\ thrown = NoError
    /\ \E sorted \in sortOutcomes(MapValues(Entries), options) :
           /\ ret' = RetList(paginate(sorted, options))
           /\ heap' = [heap EXCEPT ![map] = mapAfterSort(@, sorted)]
    /\ lastOp' = Call("list", Undefined, options, 0, 0)
    /\ logged' = <<>>
    /\ closed' = <<>>
    /\ UNCHANGED <<map, autoIdSeed, generated, held, txStack, thrown>>

\* Array.from(this.map.values()).filter(...): the first TypeError ends it
queryThrows(es, filter) ==
    \E i \in 1..Len(es) :
        /\ matchesFilter(es[i].value, filter) = "throw"
        /\ \A j \in 1..(i - 1) : matchesFilter(es[j].value, filter) # "throw"

\* a filter callback that takes an empty or absent filter to match nothing
queryMatchesNonEmpty(es, filter) ==
    SelectSeq(MapValues(es),
              LAMBDA item : ~IsEmptyFilter(filter) /\ matchesFilter(item, filter) = "true")

queryMatches(es, filter) ==
    SelectSeq(MapValues(es), LAMBDA item : matchesFilter(item, filter) = "true")

query(filter, options) ==
    /\ thrown = NoError
    /\ IF queryThrows(Entries, filter)
       THEN /\ thrown' = TypeError
            /\ ret' = RetNone
            /\ heap' = heap
       ELSE /\ thrown' = NoError
            /\ \E sorted \in sortOutcomes(queryMatches(Entries, filter), options) :
                   /\ ret' = RetList(paginate(sorted, options))
                   /\ heap' = [heap EXCEPT ![map] = mapAfterSort(@, sorted)]
    /\ lastOp' = Call("query", Undefined, [filter |-> filter, options |-> options], 0, 0)
    /\ logged' = <<>>
    /\ closed' = <<>>
    /\ UNCHANGED <<map, autoIdSeed, generated, held, txStack>>

----------------------------------------------------------------------------
(* transaction: the call, the caller's body, and its two ways out. *)

\* const snapshot = this.map: the same Map object, no copy
newMapAliased(h, m) == [ref |-> m, heap |-> h]

\* const snapshot = new Map(this.map): a new Map object with the same entries
newMap(h, m) ==
    [ref |-> FreshId(h),
     heap |-> [o \in DOMAIN h \cup {FreshId(h)} |-> IF o \in DOMAIN h THEN h[o] ELSE h[m]]]

\* a catch block that goes back to the snapshot of the outermost open
\* transaction
rollbackRefOutermost(m, snapshot) == txStack[1].snapshot

\* the catch block's this.map = snapshot
rollbackRef(m, snapshot) == snapshot

\* a commit that restores the snapshot as the catch block does
commitRefRestores(m, snapshot) == snapshot

\* the try block assigns nothing: "commit already applied to underlying map"
commitRef(m, snapshot) == m

\* a catch block that throws an error of its own
rethrowUnsupported(err) == BodyError("unsupported")

\* throw err
rethrow(err) == err

\* a catch block that throws again without a word to the logger
rollbackLogNone(err) == <<>>

\* this.logger.warn('transaction.rollback', err)
rollbackLog(err) ==
    << LogEvent("warn", "transaction.rollback", Undefined, <<>>, FALSE, err, heap[map']) >>

\* return res
commitResult(res) == RetValue(res)

\* the DataStore object, the one this of the model
thisStore == "DataStore"

\* new TransactionalProxy(ds): the proxy holds ds and nothing else
TransactionalProxy(ds) == [ds |-> ds]

\* transaction(fn) up to the call of fn(proxy).  A frame keeps the snapshot
\* reference and the proxy; pre (the entries when the call began) and ops
\* (the body's successful mutating calls so far) are history the code does
\* not hold.
transactionBegin ==
    LET snap == newMap(heap, map)
    IN  /\ thrown = NoError
        /\ Depth < MaxBody
        /\ heap' = snap.heap
        /\ txStack' = Append(txStack, [snapshot |-> snap.ref,
                                       proxy |-> TransactionalProxy(thisStore),
                                       pre |-> Entries, ops |-> <<>>, caught |-> FALSE])
        /\ lastOp' = CallK("transaction", Undefined)
        /\ ret' = RetNone
        /\ logged' = <<>>
        /\ closed' = <<>>
        /\ UNCHANGED <<map, autoIdSeed, generated, held, thrown>>

\* the body raises an error of its own
bodyThrow(e) ==
    /\ thrown = NoError
    /\ Depth > 0
    /\ thrown' = e
    /\ lastOp' = CallK("throw", Undefined)
    /\ ret' = RetNone
    /\ logged' = <<>>
    /\ closed' = <<>>
    /\ UNCHANGED <<heap, map, autoIdSeed, generated, held, txStack>>

\* a try/catch of the caller (inside a body or at top level) takes the error
callerCatch ==
    /\ thrown # NoError
    /\ thrown' = NoError
    /\ lastOp' = CallK("catch", Undefined)
    /\ ret' = RetNone
    /\ logged' = <<>>
    /\ closed' = <<>>
    /\ txStack' = IF Depth = 0 THEN txStack ELSE [txStack EXCEPT ![Depth].caught = TRUE]
    /\ UNCHANGED <<heap, map, autoIdSeed, generated, held>>

\* the body stores the proxy it was handed where the caller finds it later;
\* replaced is history (this.map = snapshot has run since)
keepProxy ==
    /\ thrown = NoError
    /\ Depth > 0
    /\ held = <<>>
    /\ held' = << [view |-> Top.proxy, replaced |-> FALSE] >>
    /\ lastOp' = CallK("keep", Undefined)
    /\ ret' = RetNone
    /\ logged' = <<>>
    /\ closed' = <<>>
    /\ UNCHANGED <<heap, map, autoIdSeed, generated, txStack, thrown>>

\* fn(proxy) returned res: log the commit and return res
transactionCommit(res) ==
    LET rest == SubSeq(txStack, 1, Depth - 1)
        outer == IF rest = <<>> THEN rest
                 ELSE [rest EXCEPT ![Len(rest)].ops = @ \o Top.ops]
    IN  /\ thrown = NoError
        /\ Depth > 0
        /\ logged' = << LogEvent("info", "transaction.commit", Undefined, <<>>, FALSE, NoError,
                                  Entries) >>
        /\ ret' = commitResult(res)
        /\ map' = commitRef(map, Top.snapshot)
        /\ txStack' = outer
        /\ heap' = Collect(heap, map', outer)
        /\ lastOp' = CallK("transaction.commit", Undefined)
        /\ closed' = << [frame |-> Top, raised |-> NoError, res |-> res] >>
        /\ UNCHANGED <<autoIdSeed, generated, held, thrown>>

\* fn(proxy) threw: point the store at the snapshot, log, throw again
transactionRollback ==
    LET rest == SubSeq(txStack, 1, Depth - 1)
    IN  /\ thrown # NoError
        /\ Depth > 0
        /\ map' = rollbackRef(map, Top.snapshot)
        /\ logged' = rollbackLog(thrown)
        /\ thrown' = rethrow(thrown)
        /\ ret' = RetNone
        /\ txStack' = rest
        /\ heap' = Collect(heap, map', rest)
        /\ lastOp' = CallK("transaction.rollback", Undefined)
        /\ closed' = << [frame |-> Top, raised |-> thrown, res |-> 0] >>
        /\ held' = IF held = <<>> THEN held ELSE << [held[1] EXCEPT !.replaced = TRUE] >>
        /\ UNCHANGED <<autoIdSeed, generated>>

----------------------------------------------------------------------------
(* TransactionalProxy: each method hands its arguments to the method of    *)
(* the same name of this.ds.  via keeps the call as it was made on the     *)
(* proxy.                                                                  *)

ViaProxy(view, call) ==
    << [view |-> view, call |-> call, replaced |-> held # <<>> /\ held[1].replaced] >>

\* create(item) { return this.ds.create(item); }
proxyCreate(view, item, now) ==
    /\ view.ds = thisStore
    /\ create(item, now)
    /\ via' = ViaProxy(view, Call("create", Undefined, item, now, 0))

\* get(key) { return this.ds.get(key); }
proxyGet(view, key) ==
    /\ view.ds = thisStore
    /\ get(key)
    /\ via' = ViaProxy(view, CallK("get", key))

\* update(key, patch) { return this.ds.update(key, patch); }
proxyUpdate(view, key, patch) ==
    /\ view.ds = thisStore
    /\ update(key, patch)
    /\ via' = ViaProxy(view, Call("update", key, patch, 0, 0))

\* a delete that hands its key to get
proxyDeleteGets(view, key) ==
    /\ view.ds = thisStore
    /\ get(key)
    /\ via' = ViaProxy(view, CallK("delete", key))

\* delete(key) { return this.ds.delete(key); }
proxyDelete(view, key) ==
    /\ view.ds = thisStore
    /\ delete(key)
    /\ via' = ViaProxy(view, CallK("delete", key))

\* list(options) { return this.ds.list(options); }
proxyList(view, options) ==
    /\ view.ds = thisStore
    /\ list(options)
    /\ via' = ViaProxy(view, Call("list", Undefined, options, 0, 0))

\* query(filter, options) { return this.ds.query(filter, options); }
proxyQuery(view, filter, options) ==
    /\ view.ds = thisStore
    /\ query(filter, options)
    /\ via' = ViaProxy(view, Call("query", Undefined, [filter |-> filter, options |-> options], 0, 0))

----------------------------------------------------------------------------
(* The inputs the calls are explored with. *)

\* a key of the caller: the text generateId gives at time 37 with seed 1
UserKeys == { Str(<<"i", "d", "_", "1", "1", "_", "1">>) }

\* Date.now() at a keyless create
Times == {37}

Bodies == { [age |-> Num(1), name |-> Str(<<"x">>)] }

\* candidates of create: no key, a null key, or a key of the caller
Items ==
    Bodies
    \cup { Spread(b, [f \in {keyName} |-> k]) : b \in Bodies, k \in UserKeys \cup {Null} }

\* patches of update: never the key field
Patches == { [age |-> Num(3), city |-> Str(<<"p">>)] }

\* keys of get, update and delete: the caller's and those the store holds
KeyInputs == UserKeys \cup MapKeys(Entries)

BodyErrors == { BodyError("boom") }

BodyResults == {7}

----------------------------------------------------------------------------
(* The store and its transactions. *)

Init ==
    /\ heap = [o \in {1} |-> <<>>]
    /\ map = 1
    /\ autoIdSeed = 1
    /\ txStack = <<>>
    /\ thrown = NoError
    /\ ret = RetNone
    /\ logged = <<>>
    /\ lastOp = NoCall
    /\ closed = <<>>
    /\ generated = <<>>
    /\ held = <<>>
    /\ via = <<>>

\* the step is a call on the store itself
Direct == via' = <<>>

Next ==
    \/ \E item \in Items, now \in Times : Budgeted /\ create(item, now) /\ Direct
    \/ \E key \in KeyInputs : get(key) /\ Direct
    \/ \E key \in KeyInputs, patch \in Patches : Budgeted /\ update(key, patch) /\ Direct
    \/ \E key \in KeyInputs : Budgeted /\ delete(key) /\ Direct
    \/ Budgeted /\ clear /\ Direct
    \/ BodyRoom /\ transactionBegin /\ Direct
    \/ \E e \in BodyErrors : bodyThrow(e) /\ Direct
    \/ callerCatch /\ Direct
    \/ \E res \in BodyResults : transactionCommit(res) /\ Direct
    \/ transactionRollback /\ Direct

Spec == Init /\ [][Next]_vars

----------------------------------------------------------------------------
(* The store under list and query: records with a text, a number and an    *)
(* instant, some without the number or the instant; each call's result is  *)
(* taken by the caller before the next call.                               *)

QueryBodies ==
    { [name |-> Str(<<"a", "l">>), age |-> Num(1), at |-> DateObj(5, 1)],
      [name |-> Str(<<"b", "o">>), age |-> Num(2)],
      [name |-> Str(<<"a", "l">>), at |-> DateObj(5, 2)] }

\* created without a key
QueryItems == QueryBodies

Filter(and, or, fields) == [nil |-> FALSE, and |-> and, or |-> or, fields |-> fields]
NoFilter == [nil |-> TRUE, and |-> <<>>, or |-> <<>>, fields |-> <<>>]
EmptyFilter == Filter(<<>>, <<>>, <<>>)

FieldEntry(name, op, operand) == [name |-> name, ff |-> << [o \in {op} |-> operand] >>]
NullEntry(name) == [name |-> name, ff |-> <<>>]
FieldOp(name, op, operand) == Filter(<<>>, <<>>, << FieldEntry(name, op, operand) >>)

NumOperands == { Num(n) : n \in 0..3 }

CompareOps == {"eq", "lt", "lte", "gt", "gte"}

\* one operator on the numeric field, its operand a number or a pair of them
NumericFilters ==
    { FieldOp("age", op, Scalar(v)) : op \in CompareOps, v \in NumOperands }
    \cup { FieldOp("age", "between", Array(<<lo, hi>>)) : lo \in NumOperands, hi \in NumOperands }

\* operators and operands of a kind that is not the field's
MixedFilters ==
    { FieldOp("at", "eq", Scalar(DateObj(5, 3))),
      FieldOp("at", "eq", Scalar(Num(5))),
      FieldOp("at", "before", Scalar(DateObj(6, 3))),
      FieldOp("at", "after", Scalar(Str(<<"x">>))),
      FieldOp("at", "between", Array(<<DateObj(5, 3), DateObj(5, 4)>>)),
      FieldOp("at", "between", Array(<<DateObj(6, 3), Num(1)>>)),
      FieldOp("at", "between", Array(<<DateObj(5, 3), Num(1)>>)),
      FieldOp("at", "between", Scalar(Num(1))),
      FieldOp("at", "gte", Scalar(Num(1))),
      FieldOp("age", "between", Scalar(Num(1))),
      FieldOp("age", "between", Scalar(Str(<<"1", "2">>))),
      FieldOp("age", "between", Array(<<Num(1)>>)),
      FieldOp("age", "contains", Scalar(Str(<<"x">>))),
      FieldOp("age", "lt", Scalar(Str(<<"2">>))),
      FieldOp("age", "eq", Scalar(Str(<<"1">>))),
      FieldOp("age", "gte", Scalar(Str(<<"x">>))),
      FieldOp("name", "eq", Scalar(Str(<<"a", "l">>))),
      FieldOp("name", "contains", Scalar(Str(<<"l">>))),
      FieldOp("name", "startsWith", Scalar(Str(<<"b">>))),
      FieldOp("name", "endsWith", Scalar(Str(<<"o">>))),
      FieldOp("name", "contains", Scalar(Num(1))),
      FieldOp("name", "gte", Scalar(Num(1))),
      FieldOp("city", "eq", Scalar(Str(<<"x">>))),
      FieldOp("city", "contains", Scalar(Str(<<"x">>))),
      Filter(<<>>, <<>>, << NullEntry("age") >>) }

AgeIs(n) == FieldOp("age", "eq", Scalar(Num(n)))
NameIs(s) == FieldOp("name", "eq", Scalar(Str(s)))

\* $and and $or groups, empty, nested, and beside named fields
GroupFilters ==
    { NoFilter,
      EmptyFilter,
      Filter(<< <<>> >>, <<>>, <<>>),
      Filter(<<>>, << <<>> >>, <<>>),
      Filter(<< << AgeIs(1), NameIs(<<"a", "l">>) >> >>, <<>>, <<>>),
      Filter(<<>>, << << AgeIs(2), NameIs(<<"a", "l">>) >> >>, <<>>),
      Filter(<<>>, << << AgeIs(1), AgeIs(1) >> >>, <<>>),
      Filter(<< << AgeIs(1) >> >>, << << AgeIs(2), NameIs(<<"a", "l">>) >> >>,
             << FieldEntry("name", "startsWith", Scalar(Str(<<"a">>))) >>),
      Filter(<< << Filter(<<>>, << << AgeIs(1), AgeIs(2) >> >>, <<>>),
                   FieldOp("age", "lt", Scalar(Num(2))) >> >>, <<>>, <<>>),
      Filter(<<>>, << << AgeIs(1), FieldOp("at", "eq", Scalar(Num(5))) >> >>, <<>>),
      Filter(<<>>, <<>>, << FieldEntry("age", "eq", Scalar(Num(9))),
                            FieldEntry("at", "eq", Scalar(Num(5))) >>),
      Filter(<<>>, <<>>, << FieldEntry("at", "eq", Scalar(Num(5))),
                            FieldEntry("age", "eq", Scalar(Num(9))) >>) }

\* the two sub-filters of an $or group: overlapping, disjoint, empty,
\* matching nothing, and one whose operand makes the Date branch throw
OrParts ==
    { AgeIs(1),
      NameIs(<<"a", "l">>),
      FieldOp("age", "gt", Scalar(Num(1))),
      FieldOp("city", "eq", Scalar(Str(<<"x">>))),
      FieldOp("at", "eq", Scalar(Num(5))),
      EmptyFilter }

\* { $or: [f1, f2] }
Either(f1, f2) == Filter(<<>>, << << f1, f2 >> >>, <<>>)

OrFilters == { Either(f1, f2) : f1 \in OrParts, f2 \in OrParts }

Filters == NumericFilters \cup MixedFilters \cup GroupFilters

Optional(S) == {<<>>} \cup { <<x>> : x \in S }

SortFields == {"age", "name", "at", keyName}

ListOptions ==
    [ sortBy : Optional(SortFields), sortDir : Optional({"asc", "desc"}),
      limit : Optional(-1..MaxRecords), offset : Optional(-1..MaxRecords) ]

\* the options query is explored with
QueryOptions ==
    { NoOptions,
      [NoOptions EXCEPT !.sortBy = <<"age">>],
      [NoOptions EXCEPT !.sortBy = <<"age">>, !.sortDir = <<"desc">>],
      [NoOptions EXCEPT !.sortBy = <<"name">>, !.limit = <<1>>],
      [NoOptions EXCEPT !.offset = <<1>>, !.limit = <<1>>] }

\* the arguments query is explored with
\* { name: { op1: v1, op2: v2 } }
FieldOps(name, op1, v1, op2, v2) ==
    Filter(<<>>, <<>>,
           << [name |-> name, ff |-> << [o \in {op1, op2} |-> IF o = op1 THEN v1 ELSE v2] >>] >>)

\* two operators on one field, of the same kind or of two kinds
TwoOpFilters ==
    { FieldOps("age", "gte", Scalar(Num(2)), "contains", Scalar(Str(<<"x">>))),
      FieldOps("age", "gte", Scalar(Num(1)), "lt", Scalar(Num(2))),
      FieldOps("name", "startsWith", Scalar(Str(<<"b">>)), "lt", Scalar(Num(1))),
      FieldOps("at", "before", Scalar(DateObj(6, 3)), "gte", Scalar(Num(9))),
      FieldOps("city", "eq", Scalar(Str(<<"x">>)), "gte", Scalar(Num(1))) }

\* an empty $or group beside an $and group, an empty $and group, a field
EmptyOrFilters ==
    { Filter(<< << AgeIs(1) >> >>, << <<>> >>, <<>>),
      Filter(<< <<>> >>, << <<>> >>, <<>>),
      Filter(<<>>, << <<>> >>, << FieldEntry("age", "gte", Scalar(Num(0))) >>) }

QueryInputs ==
    { [filter |-> f, options |-> o] : f \in Filters, o \in QueryOptions }
    \cup { [filter |-> f, options |-> NoOptions] :
              f \in OrParts \cup OrFilters \cup TwoOpFilters \cup EmptyOrFilters }

\* the caller has taken the result of the call before
Idle == lastOp.op \in {"init", "result"}

takeResult ==
    /\ ~Idle
    /\ lastOp' = CallK("result", Undefined)
    /\ ret' = RetNone
    /\ thrown' = NoError
    /\ logged' = <<>>
    /\ closed' = <<>>
    /\ UNCHANGED <<heap, map, autoIdSeed, generated, held, txStack>>

NextQuery ==
    \/ \E item \in QueryItems, now \in Times : Idle /\ create(item, now) /\ Direct
    \/ \E key \in KeyInputs : Idle /\ get(key) /\ Direct
    \/ \E key \in KeyInputs : Idle /\ delete(key) /\ Direct
    \/ Idle /\ clear /\ Direct
    \/ \E options \in ListOptions : Idle /\ list(options) /\ Direct
    \/ \E q \in QueryInputs : Idle /\ query(q.filter, q.options) /\ Direct
    \/ takeResult /\ Direct

SpecQuery == Init /\ [][NextQuery]_vars

----------------------------------------------------------------------------
(* The store under list and a query for everything, with every options     *)
(* value.                                                                  *)

\* filters that hold for every record: undefined and {}
AllFilters == {NoFilter, EmptyFilter}

\* created without a key, any of them more than once: records that differ in
\* every field, records equal in every field but the key, and a record
\* without the instant
ListItems ==
    { [name |-> Str(<<"a", "l">>), age |-> Num(1), at |-> DateObj(5, 1)],
      [name |-> Str(<<"b", "o">>), age |-> Num(2)] }

NextList ==
    \/ \E item \in ListItems, now \in Times : Idle /\ create(item, now) /\ Direct
    \/ \E key \in KeyInputs : Idle /\ delete(key) /\ Direct
    \/ \E options \in ListOptions : Idle /\ list(options) /\ Direct
    \/ \E filter \in AllFilters, options \in ListOptions : Idle /\ query(filter, options) /\ Direct
    \/ takeResult /\ Direct

SpecList == Init /\ [][NextList]_vars

----------------------------------------------------------------------------
(* The store, its transactions and the proxies they hand out: the caller   *)
(* calls the proxy its body was handed, or the one it kept, inside the     *)
(* body and after the transaction has ended; it keeps the proxy of one     *)
(* transaction and starts no other while it holds it.                      *)

\* options and filters of the calls on the proxy
ViewOptions ==
    { [NoOptions EXCEPT !.sortBy = <<"age">>, !.sortDir = <<"desc">>, !.limit = <<1>>] }

ViewFilters == { FieldOp("age", "gte", Scalar(Num(2))) }

\* candidates of create through a proxy: no key, or a key of the caller
ViewItems ==
    Bodies \cup { Spread(b, [f \in {keyName} |-> k]) : b \in Bodies, k \in UserKeys }

\* the proxies the caller can call: the one its open body was handed and the
\* one it kept
Proxies ==
    (IF Depth > 0 THEN {Top.proxy} ELSE {})
    \cup (IF held # <<>> THEN {held[1].view} ELSE {})

\* the caller has a result of get, list or query to take before its next call
Reading == lastOp.op \in {"get", "list", "query"}

NextView ==
    \/ ~Reading /\ Depth = 0 /\ held = <<>> /\ transactionBegin /\ Direct
    \/ ~Reading /\ keepProxy /\ Direct
    \/ \E e \in BodyErrors : ~Reading /\ bodyThrow(e) /\ Direct
    \/ ~Reading /\ callerCatch /\ Direct
    \/ \E res \in BodyResults : ~Reading /\ transactionCommit(res) /\ Direct
    \/ ~Reading /\ transactionRollback /\ Direct
    \/ \E view \in Proxies, item \in ViewItems, now \in Times :
           ~Reading /\ Budgeted /\ proxyCreate(view, item, now)
    \/ \E view \in Proxies, key \in KeyInputs : ~Reading /\ proxyGet(view, key)
    \/ \E view \in Proxies, key \in KeyInputs, patch \in Patches :
           ~Reading /\ Budgeted /\ proxyUpdate(view, key, patch)
    \/ \E view \in Proxies, key \in KeyInputs :
           ~Reading /\ Budgeted /\ proxyDelete(view, key)
    \/ \E view \in Proxies, options \in ViewOptions : ~Reading /\ proxyList(view, options)
    \/ \E view \in Proxies, filter \in ViewFilters, options \in ViewOptions :
           ~Reading /\ proxyQuery(view, filter, options)
    \/ Reading /\ takeResult /\ Direct

SpecView == Init /\ [][NextView]_vars

----------------------------------------------------------------------------
(* Transactions begun inside transaction bodies: a body creates, deletes,  *)
(* throws, catches and calls transaction() again on the same store.  The   *)
(* caller runs one outermost transaction on the new store and all mutating *)
(* calls are made in bodies, delete on keys the store holds.  The records  *)
(* a body creates carry, as age, the number of transactions open at the    *)
(* call.                                                                   *)

\* candidates of create at a nesting depth: no key, or a key of the caller
NestedItems(depth) ==
    LET body == [age |-> Num(depth), name |-> Str(<<"x">>)]
    IN  {body} \cup { Spread(body, [f \in {keyName} |-> k]) : k \in UserKeys }

NextNested ==
    \/ \E item \in NestedItems(Depth), now \in Times :
           Depth > 0 /\ create(item, now) /\ Direct
    \/ \E key \in MapKeys(Entries) : Depth > 0 /\ delete(key) /\ Direct
    \/ (Depth = 0 => lastOp = NoCall) /\ transactionBegin /\ Direct
    \/ \E e \in BodyErrors : bodyThrow(e) /\ Direct
    \/ callerCatch /\ Direct
    \/ \E res \in BodyResults : transactionCommit(res) /\ Direct
    \/ transactionRollback /\ Direct

SpecNested == Init /\ [][NextNested]_vars

----------------------------------------------------------------------------
(* The six operations on one store, each call's result taken before the    *)
(* next call: what a call leaves of the mapping.                           *)

FrameOptions ==
    { NoOptions,
      [NoOptions EXCEPT !.sortBy = <<"age">>, !.sortDir = <<"desc">>],
      [NoOptions EXCEPT !.sortBy = <<"name">>] }

FrameFilters == { EmptyFilter, FieldOp("age", "gte", Scalar(Num(2))) }

NextFrame ==
    \/ \E item \in ListItems, now \in Times : Idle /\ create(item, now) /\ Direct
    \/ \E key \in KeyInputs : Idle /\ get(key) /\ Direct
    \/ \E key \in KeyInputs, patch \in Patches : Idle /\ update(key, patch) /\ Direct
    \/ \E key \in KeyInputs : Idle /\ delete(key) /\ Direct
    \/ \E options \in FrameOptions : Idle /\ list(options) /\ Direct
    \/ \E filter \in FrameFilters, options \in FrameOptions :
           Idle /\ query(filter, options) /\ Direct
    \/ takeResult /\ Direct

SpecFrame == Init /\ [][NextFrame]_vars

----------------------------------------------------------------------------
(* The order of the mapping: creates with and without a key, updates and   *)
(* deletes, outside a transaction and in the body of one, and list and     *)
(* query between them.                                                     *)

OrderOptions == { NoOptions, [NoOptions EXCEPT !.sortBy = <<"age">>, !.sortDir = <<"desc">>] }

OrderFilters == { EmptyFilter, FieldOp("age", "lt", Scalar(Num(3))) }

NextOrder ==
    \/ \E item \in ViewItems, now \in Times :
           ~Reading /\ Budgeted /\ create(item, now) /\ Direct
    \/ \E key \in KeyInputs, patch \in Patches :
           ~Reading /\ Budgeted /\ update(key, patch) /\ Direct
    \/ \E key \in KeyInputs : ~Reading /\ Budgeted /\ delete(key) /\ Direct
    \/ \E options \in OrderOptions : ~Reading /\ list(options) /\ Direct
    \/ \E filter \in OrderFilters : ~Reading /\ query(filter, NoOptions) /\ Direct
    \/ Reading /\ takeResult /\ Direct
    \/ ~Reading /\ Depth = 0 /\ transactionBegin /\ Direct
    \/ \E e \in BodyErrors : ~Reading /\ bodyThrow(e) /\ Direct
    \/ ~Reading /\ callerCatch /\ Direct
    \/ \E res \in BodyResults : ~Reading /\ transactionCommit(res) /\ Direct
    \/ ~Reading /\ transactionRollback /\ Direct

SpecOrder == Init /\ [][NextOrder]_vars

----------------------------------------------------------------------------
(* What a sequence of successful mutating calls makes of a mapping. *)

ApplyCall(es, c) ==
    CASE c.op = "create" -> createMap(es, c.item[1], c.now, c.seed)
      [] c.op = "update" -> updateMap(es, c.key, c.item[1])
      [] c.op = "delete" -> deleteMap(es, c.key)
      [] c.op = "clear"  -> clearMap(es)
      [] OTHER -> es

RECURSIVE Replay(_, _)
Replay(es, calls) ==
    IF calls = <<>> THEN es
    ELSE Replay(ApplyCall(es, Head(calls)), Tail(calls))

HasCall(calls, names) == \E i \in 1..Len(calls) : calls[i].op \in names

RolledBack == closed # <<>> /\ closed[1].raised # NoError
Committed == closed # <<>> /\ closed[1].raised = NoError

\* the step is a call of op
Calls(op) == lastOp'.op = op
CallItem == lastOp'.item[1]
CallKey == lastOp'.key

----------------------------------------------------------------------------
(* C1: when a transaction body raises an error e, whatever sequence of     *)
(* create, update, delete and clear it performed before, the mapping after *)
(* transaction returns control is exactly the mapping at its start, and    *)
(* the error that reaches the caller is e itself.                          *)

C1_RollbackRestores ==
    RolledBack =>
        /\ Entries = closed[1].frame.pre
        /\ thrown = closed[1].raised

C1_Witness ==
    /\ RolledBack
    /\ closed[1].raised = BodyError("boom")
    /\ HasCall(closed[1].frame.ops, {"update", "delete"})
    /\ Entries # <<>>

----------------------------------------------------------------------------
(* C2: a transaction whose body returns normally leaves its mutations in   *)
(* effect: the mapping afterwards is the pre-transaction mapping with the  *)
(* body's successful calls applied (also when the body caught an error on  *)
(* the way), and transaction returns the body's return value.              *)

C2_CommitKeeps ==
    Committed =>
        /\ Entries = Replay(closed[1].frame.pre, closed[1].frame.ops)
        /\ ret = RetValue(closed[1].res)

C2_Witness ==
    /\ Committed
    /\ closed[1].frame.caught
    /\ closed[1].frame.ops # <<>>
    /\ Entries # closed[1].frame.pre

----------------------------------------------------------------------------
(* C3: in every reachable state every record is stored under the key that  *)
(* equals its own key-field value, and no two records share a key-field    *)
(* value.                                                                  *)

C3_KeyInvariant ==
    /\ \A i \in 1..Len(Entries) : Field(Entries[i].value, keyName) = Entries[i].key
    /\ \A i, j \in 1..Len(Entries) :
           i # j => Field(Entries[i].value, keyName) # Field(Entries[j].value, keyName)

C3_Witness ==
    /\ Len(Entries) = 2
    /\ lastOp.op = "update"
    /\ thrown = NoError

----------------------------------------------------------------------------
(* C4: create with a caller-supplied key that is already in the store      *)
(* raises the duplicate-key error and leaves the store unchanged.          *)

C4_DuplicateCreate ==
    [][ ( /\ Calls("create")
          /\ ~createGenerates(CallItem)
          /\ MapHas(Entries, Field(CallItem, keyName)) )
        => /\ thrown' = DuplicateKeyError(Field(CallItem, keyName))
           /\ Entries' = Entries
           /\ heap' = heap /\ map' = map ]_vars

C4_Witness ==
    /\ lastOp.op = "create"
    /\ ~createGenerates(lastOp.item[1])
    /\ thrown = DuplicateKeyError(Field(lastOp.item[1], keyName))
    /\ MapHas(Entries, Field(lastOp.item[1], keyName))

----------------------------------------------------------------------------
(* C5: update(key, patch) raises the not-found error exactly when key is   *)
(* absent from the store, and then the store is unchanged.                 *)

C5_UpdateNotFound ==
    [][ Calls("update")
        => /\ (thrown' = NotFoundError) <=> ~MapHas(Entries, CallKey)
           /\ ~MapHas(Entries, CallKey) => (Entries' = Entries /\ heap' = heap /\ map' = map) ]_vars

C5_Witness ==
    /\ lastOp.op = "update"
    /\ thrown = NotFoundError
    /\ Entries # <<>>
    /\ ~MapHas(Entries, lastOp.key)

----------------------------------------------------------------------------
(* C6: round trip.  A record r returned by create(x) holds every field of  *)
(* x and the resolved key under the key field (the supplied key verbatim   *)
(* when one is given), and a get(r.key) that follows returns r.            *)

\* what create(x) returned is x with its resolved key
CreatedFrom(r, x, k) ==
    /\ DOMAIN r = DOMAIN x \cup {keyName}
    /\ \A f \in DOMAIN x \ {keyName} : r[f] = x[f]
    /\ Field(r, keyName) = k
    /\ ~createGenerates(x) => Field(r, keyName) = x[keyName]

CreateReturns ==
    /\ thrown' = NoError
    /\ ret'.tag = "record"
    /\ CreatedFrom(ret'.recs[1], CallItem, createKey(CallItem, lastOp'.now, lastOp'.seed))

GetAfterCreate ==
    ( /\ lastOp.op = "create" /\ thrown = NoError
      /\ Calls("get") /\ CallKey = Field(ret.recs[1], keyName) )
    => ret' = ret

\* C6 as stated: create returns such a record for every candidate whose key
\* is absent, null, or not in the store
C6_Original ==
    [][ /\ ( Calls("create")
             /\ (createGenerates(CallItem) \/ ~MapHas(Entries, Field(CallItem, keyName))) )
           => CreateReturns
        /\ GetAfterCreate ]_vars

\* C6 as amended: create returns such a record for every candidate whose
\* resolved key (the supplied key, or the generated one when the key is absent
\* or null) is not in the store, and a get of that key then returns the record
C6_RoundTrip ==
    [][ /\ ( Calls("create")
             /\ ~MapHas(Entries, createKey(CallItem, lastOp'.now, lastOp'.seed)) )
           => CreateReturns
        /\ GetAfterCreate ]_vars

C6_Witness ==
    /\ lastOp.op = "create"
    /\ createGenerates(lastOp.item[1])
    /\ thrown = NoError
    /\ ret.tag = "record"
    /\ MapGet(Entries, Field(ret.recs[1], keyName)) = ret.recs

----------------------------------------------------------------------------
(* C7: for a key k in the store and a patch p without the key field,       *)
(* update(k, p) returns a record whose key field is k, whose patched       *)
(* fields have p's values and whose other fields are those stored before;  *)
(* a get(k) that follows returns that record.                              *)

C7_UpdateMerges ==
    [][ /\ ( Calls("update") /\ MapHas(Entries, CallKey) )
           => /\ thrown' = NoError
              /\ ret'.tag = "record"
              /\ LET r == ret'.recs[1]
                     old == MapGet(Entries, CallKey)[1]
                 IN  /\ Field(r, keyName) = CallKey
                     /\ DOMAIN r = DOMAIN old \cup DOMAIN CallItem
                     /\ \A f \in DOMAIN CallItem : r[f] = CallItem[f]
                     /\ \A f \in DOMAIN old \ DOMAIN CallItem : r[f] = old[f]
        /\ ( /\ lastOp.op = "update" /\ thrown = NoError
             /\ Calls("get") /\ CallKey = lastOp.key )
           => ret' = ret ]_vars

C7_Witness ==
    /\ lastOp.op = "update"
    /\ thrown = NoError
    /\ ret.tag = "record"
    /\ Field(ret.recs[1], "age") = Num(3)
    /\ Field(ret.recs[1], "name") = Str(<<"x">>)
    /\ MapGet(Entries, lastOp.key) = ret.recs

----------------------------------------------------------------------------
(* C8: delete(k) returns true exactly when a record was stored under k;    *)
(* afterwards get(k) returns the absent result; on an absent k it returns  *)
(* false and does not alter the store, so a second delete(k) is a no-op    *)
(* that returns false.                                                     *)

C8_Delete ==
    [][ /\ Calls("delete")
           => /\ ret' = RetBool(MapHas(Entries, CallKey))
              /\ thrown' = NoError
              /\ ~MapHas(Entries', CallKey)
              /\ ~MapHas(Entries, CallKey) => (Entries' = Entries /\ heap' = heap /\ map' = map)
        /\ ( lastOp.op = "delete" /\ Calls("get") /\ CallKey = lastOp.key )
           => ret' = RetUndefined
        /\ ( lastOp.op = "delete" /\ Calls("delete") /\ CallKey = lastOp.key )
           => (ret' = RetBool(FALSE) /\ Entries' = Entries) ]_vars

C8_Witness ==
    /\ lastOp.op = "delete"
    /\ ret = RetBool(TRUE)
    /\ Entries # <<>>

----------------------------------------------------------------------------
(* C9: get, delete, list, query and clear never raise an error, for any    *)
(* key, any filter tree (operators and operand kinds that do not fit the   *)
(* record's field kind included) and any options; they return a sentinel,  *)
(* a boolean or a sequence.                                                *)

TotalCalls == {"get", "delete", "list", "query", "clear"}

\* C9: after any of these calls no error is in flight and a value was returned
C9_Total ==
    lastOp.op \in TotalCalls =>
        /\ thrown = NoError
        /\ ret.tag \in {"record", "undefined", "boolean", "list"}

----------------------------------------------------------------------------
(* C10: query(filter) returns exactly the stored records the filter holds  *)
(* for, none missing and none extra; on a numeric field between:[low,high] *)
(* holds exactly when low <= value <= high and lt, lte, gt, gte, eq hold   *)
(* exactly for the corresponding comparison.                               *)

Range(f) == { f[i] : i \in DOMAIN f }

\* the comparison an operator stands for, on numbers
Compares(op, n, operand) ==
    CASE op = "eq"  -> n = operand.vs[1].n
      [] op = "lt"  -> n < operand.vs[1].n
      [] op = "lte" -> n <= operand.vs[1].n
      [] op = "gt"  -> n > operand.vs[1].n
      [] op = "gte" -> n >= operand.vs[1].n
      [] op = "between" -> operand.vs[1].n <= n /\ n <= operand.vs[2].n

\* a one-operator filter on a record: a number is compared, any other kind
\* of value is checked against eq alone
Holds(r, entry) ==
    LET op == CHOOSE o \in DOMAIN entry.ff[1] : TRUE
        val == Field(r, entry.name)
    IN  IF val.kind = "num" THEN Compares(op, val.n, entry.ff[1][op])
        ELSE op = "eq" => val = entry.ff[1][op].vs[1]

Unsliced(options) == options.limit = <<>> /\ options.offset = <<>>

\* C10: a query without limit and offset returns each stored record the
\* filter matches once and no other; for a one-operator numeric filter these
\* are the records whose number passes the comparison (both ends of between
\* included)
C10_QueryExact ==
    ( /\ lastOp.op = "query"
      /\ Unsliced(lastOp.item[1].options) )
    => LET filter == lastOp.item[1].filter
           stored == Range(MapValues(Entries))
       IN  /\ thrown = NoError =>
                /\ ret.tag = "list"
                /\ Len(ret.recs) = Cardinality(Range(ret.recs))
                /\ Range(ret.recs) = { r \in stored : matchesFilter(r, filter) = "true" }
           /\ filter \in NumericFilters =>
                /\ thrown = NoError
                /\ Range(ret.recs) = { r \in stored : Holds(r, filter.fields[1]) }

C10_Witness ==
    /\ lastOp.op = "query"
    /\ lastOp.item[1].options = NoOptions
    /\ lastOp.item[1].filter = FieldOp("age", "between", Array(<<Num(1), Num(2)>>))
    /\ Len(Entries) = 2
    /\ { Field(r, "age") : r \in Range(ret.recs) } = { Num(1), Num(2) }

----------------------------------------------------------------------------
(* C11: for two filters f1 and f2, query({$or: [f1, f2]}) returns the      *)
(* union of the records query(f1) and query(f2) return in the same store,  *)
(* each record once, also a record both sub-filters match.                 *)

IsEither(filter) ==
    /\ ~filter.nil /\ filter.and = <<>> /\ filter.fields = <<>>
    /\ filter.or # <<>> /\ Len(filter.or[1]) = 2

\* what query(f) returns in the present store
Returned(f) == Range(queryMatches(Entries, f))

\* the query returned each record of query(f1) or query(f2) once, no other
UnionOf(f1, f2) ==
    /\ thrown = NoError
    /\ ret.tag = "list"
    /\ Range(ret.recs) = Returned(f1) \cup Returned(f2)
    /\ Len(ret.recs) = Cardinality(Range(ret.recs))

\* C11: for any two filters f1 and f2, query(f1) and query(f2) return and
\* query({$or: [f1, f2]}) returns each record of either result once and no
\* other record
C11_OrIsUnion ==
    ( /\ lastOp.op = "query"
      /\ Unsliced(lastOp.item[1].options)
      /\ IsEither(lastOp.item[1].filter) )
    => LET f1 == lastOp.item[1].filter.or[1][1]
           f2 == lastOp.item[1].filter.or[1][2]
       IN  /\ ~queryThrows(Entries, f1)
           /\ ~queryThrows(Entries, f2)
           /\ UnionOf(f1, f2)

\* the part of C11 that holds: where query(f1) and query(f2) return, so does
\* query({$or: [f1, f2]}), with that union
C11_UnionWhereReturned ==
    ( /\ lastOp.op = "query"
      /\ Unsliced(lastOp.item[1].options)
      /\ IsEither(lastOp.item[1].filter) )
    => LET f1 == lastOp.item[1].filter.or[1][1]
           f2 == lastOp.item[1].filter.or[1][2]
       IN  (~queryThrows(Entries, f1) /\ ~queryThrows(Entries, f2)) => UnionOf(f1, f2)

----------------------------------------------------------------------------
(* C12: an empty or absent filter matches every record, and query sorts    *)
(* and slices as list does: in every store and for every options value     *)
(* query({}, options) returns the sequence list(options) returns.          *)

\* the sequences list(options) can return in the present store (one, unless
\* the comparator leaves the order to the implementation)
ListReturns(options) ==
    { paginate(sorted, options) : sorted \in sortOutcomes(MapValues(Entries), options) }

\* C12: a query with an empty or absent filter does not throw and returns a
\* sequence list returns for the same options; without limit and offset it
\* holds every stored record
C12_QueryAllIsList ==
    ( /\ lastOp.op = "query"
      /\ lastOp.item[1].filter \in AllFilters )
    => /\ thrown = NoError
       /\ ret.tag = "list"
       /\ ret.recs \in ListReturns(lastOp.item[1].options)
       /\ Unsliced(lastOp.item[1].options)
            => Range(ret.recs) = Range(MapValues(Entries))

\* a sorted, sliced query over two records
C12_Witness ==
    /\ lastOp.op = "query"
    /\ lastOp.item[1].filter = EmptyFilter
    /\ lastOp.item[1].options =
          [sortBy |-> <<"age">>, sortDir |-> <<"desc">>, limit |-> <<1>>, offset |-> <<0>>]
    /\ Len(Entries) = 2
    /\ Len(ret.recs) = 1
    /\ ret.recs[1] = Entries[2].value
    /\ ListReturns(lastOp.item[1].options) = { ret.recs }

----------------------------------------------------------------------------
(* C13: with a sort field, what list or query returns before slicing is a  *)
(* permutation of the unsorted result, non-decreasing in the field for asc *)
(* or no direction and non-increasing for desc, and records with equal     *)
(* values of the field keep their iteration order.                         *)

\* the last call was a list, or a query that returned, with a sort field and
\* neither limit nor offset
SortedCall ==
    /\ lastOp.op \in {"list", "query"}
    /\ thrown = NoError
    /\ LET options == IF lastOp.op = "list" THEN lastOp.item[1] ELSE lastOp.item[1].options
       IN  options.sortBy # <<>> /\ Unsliced(options)

SortOptions == IF lastOp.op = "list" THEN lastOp.item[1] ELSE lastOp.item[1].options

\* the result before the sort: the Map's values, or those the filter matches
Unsorted ==
    IF lastOp.op = "list" THEN MapValues(Entries)
    ELSE queryMatches(Entries, lastOp.item[1].filter)

\* equal values: the same number, text or instant
SameValue(a, b) == a.kind = b.kind /\ a.n = b.n /\ a.s = b.s

IndexIn(arr, r) == CHOOSE i \in 1..Len(arr) : arr[i] = r

IsPermutation(out, arr) ==
    /\ Len(out) = Len(arr)
    /\ Range(out) = Range(arr)

\* no record is followed by one the direction puts before it
Ordered(out, options) ==
    \A i, j \in 1..Len(out) :
        i < j => LET vi == Field(out[i], options.sortBy[1])
                     vj == Field(out[j], options.sortBy[1])
                 IN  IF direction(options) = 1 THEN ~Gt(vi, vj) ELSE ~Lt(vi, vj)

Stable(out, arr, options) ==
    \A i, j \in 1..Len(out) :
        ( /\ i < j
          /\ SameValue(Field(out[i], options.sortBy[1]), Field(out[j], options.sortBy[1])) )
        => IndexIn(arr, out[i]) < IndexIn(arr, out[j])

\* C13: the sorted result is a permutation of the unsorted one, in the
\* direction's order, with equal values in iteration order
C13_SortedStable ==
    SortedCall =>
        /\ IsPermutation(ret.recs, Unsorted)
        /\ Ordered(ret.recs, SortOptions)
        /\ Stable(ret.recs, Unsorted, SortOptions)

\* the part of C13 that holds: the same, where the comparator is a
\* consistent one over the records it sorts
C13_SortedWhereConsistent ==
    (SortedCall /\ Consistent(Unsorted, SortOptions)) =>
        /\ IsPermutation(ret.recs, Unsorted)
        /\ Ordered(ret.recs, SortOptions)
        /\ Stable(ret.recs, Unsorted, SortOptions)

----------------------------------------------------------------------------
(* C14: for an offset and a limit that are not negative, list and query    *)
(* return the elements at positions offset .. offset+limit-1 of the        *)
(* ordered result that exist, at most limit of them, with offset 0 and     *)
(* limit the full length when absent; list({limit: n, offset: n}) is the   *)
(* slice right behind list({limit: n}), no record repeated or skipped.     *)

\* the last call was a list, or a query that returned
PagedCall == lastOp.op \in {"list", "query"} /\ thrown = NoError

NonNegative(options) ==
    /\ options.offset # <<>> => options.offset[1] >= 0
    /\ options.limit # <<>> => options.limit[1] >= 0

\* the elements of ordered at the 0-based positions offset .. offset+limit-1
PageOf(ordered, options) ==
    LET offset == IF options.offset = <<>> THEN 0 ELSE options.offset[1]
        limit == IF options.limit = <<>> THEN Len(ordered) ELSE options.limit[1]
        there == { p \in 0..(Len(ordered) - 1) : offset <= p /\ p <= offset + limit - 1 }
    IN  [i \in 1..Cardinality(there) |-> ordered[offset + i]]

FirstPage(n) == [NoOptions EXCEPT !.limit = <<n>>]
SecondPage(n) == [NoOptions EXCEPT !.limit = <<n>>, !.offset = <<n>>]

\* C14: the result is that page of an order the sort gives, no longer than
\* the limit; the page at offset n continues the page of the first n records
C14_Page ==
    (PagedCall /\ NonNegative(SortOptions)) =>
        /\ \E sorted \in sortOutcomes(Unsorted, SortOptions) :
               ret.recs = PageOf(sorted, SortOptions)
        /\ SortOptions.limit # <<>> => Len(ret.recs) <= SortOptions.limit[1]
        /\ \A n \in 0..MaxRecords :
               (lastOp.op = "list" /\ SortOptions = SecondPage(n))
               => LET first == paginate(MapValues(Entries), FirstPage(n))
                      all == MapValues(Entries)
                  IN  first \o ret.recs = SubSeq(all, 1, Min(2 * n, Len(all)))

\* the second page of one record, of two
C14_Witness ==
    /\ lastOp.op = "list"
    /\ lastOp.item[1] = SecondPage(1)
    /\ Len(Entries) = 2
    /\ ret.recs = << Entries[2].value >>

----------------------------------------------------------------------------
(* C15: when offset+limit is beyond the record count, list returns an      *)
(* empty sequence and never an error.                                      *)

\* the offset and the limit list works with
OffsetOf(options) == IF options.offset = <<>> THEN 0 ELSE options.offset[1]
LimitOf(options) == IF options.limit = <<>> THEN Len(Entries) ELSE options.limit[1]

\* C15 as stated: a list whose offset+limit is beyond the record count
\* returns the empty sequence, without an error
C15_Original ==
    ( /\ lastOp.op = "list"
      /\ OffsetOf(lastOp.item[1]) + LimitOf(lastOp.item[1]) > Len(Entries) )
    => thrown = NoError /\ ret = RetList(<<>>)

\* C15 as amended: list never raises an error; it returns the empty sequence
\* when the offset is at or beyond the record count, and when only
\* offset+limit is beyond it, the records from the offset to the end
C15_PastTheEnd ==
    lastOp.op = "list" =>
        LET options == lastOp.item[1]
            offset == OffsetOf(options)
            count == Len(Entries)
        IN  /\ thrown = NoError
            /\ ret.tag = "list"
            /\ offset >= count => ret.recs = <<>>
            /\ (0 <= offset /\ offset < count /\ offset + LimitOf(options) > count)
               => /\ Len(ret.recs) = count - offset
                  /\ Range(ret.recs) \subseteq Range(MapValues(Entries))
                  /\ options.sortBy = <<>>
                       => ret.recs = SubSeq(MapValues(Entries), offset + 1, count)

\* an offset at the record count of a store that holds records
C15_Witness ==
    /\ lastOp.op = "list"
    /\ Len(Entries) = 2
    /\ lastOp.item[1] = [NoOptions EXCEPT !.offset = <<2>>, !.limit = <<1>>]
    /\ ret = RetList(<<>>)

----------------------------------------------------------------------------
(* C16: the keys one store generates for creates without a key are         *)
(* pairwise distinct for as long as the store lives: the counter goes up   *)
(* by one with every generation and nothing resets it, not delete, not     *)
(* clear, not a rollback; a create without a key never meets a key the     *)
(* store generated before.                                                 *)

\* C16: no key was generated twice, the counter has counted every generation,
\* and a create without a key that found its key taken did not find a key
\* generated before
C16_GeneratedDistinct ==
    /\ \A i, j \in 1..Len(generated) : i # j => generated[i] # generated[j]
    /\ autoIdSeed = Len(generated) + 1
    /\ ( /\ lastOp.op = "create"
         /\ createGenerates(lastOp.item[1])
         /\ thrown # NoError )
       => \A i \in 1..(Len(generated) - 1) : thrown.key # generated[i]

\* a second key is generated after the record of the first left the store
\* (by a delete, a clear or a rollback)
C16_Witness ==
    /\ lastOp.op = "create"
    /\ createGenerates(lastOp.item[1])
    /\ thrown = NoError
    /\ Len(generated) = 2
    /\ ~MapHas(Entries, generated[1])
    /\ MapHas(Entries, generated[2])
    /\ Depth = 0

----------------------------------------------------------------------------
(* C17: the transaction view holds no state of its own.  A create, get,    *)
(* update, delete, list or query on the view has the result, the error     *)
(* outcome and the effect on the store of the same call made on the store  *)
(* in the same state, also on a view used after a rollback has replaced    *)
(* the store's mapping.                                                    *)

\* the step is what the call c, made on the store itself, does from here
OnStore(c) ==
    CASE c.op = "create" -> create(c.item[1], c.now)
      [] c.op = "get"    -> get(c.key)
      [] c.op = "update" -> update(c.key, c.item[1])
      [] c.op = "delete" -> delete(c.key)
      [] c.op = "list"   -> list(c.item[1])
      [] c.op = "query"  -> query(c.item[1].filter, c.item[1].options)

\* C17: every step that is a call on a view is a step of the same call on
\* the store, and it leaves the view as it was
C17_ViewForwards ==
    [][ via' # <<>> => (OnStore(via'[1].call) /\ held' = held) ]_vars

\* a create on a view whose transaction was rolled back lands in the mapping
\* the store has now
C17_Witness ==
    /\ via # <<>>
    /\ via[1].replaced
    /\ Depth = 0
    /\ via[1].call.op = "create"
    /\ thrown = NoError
    /\ ret.tag = "record"
    /\ MapGet(Entries, Field(ret.recs[1], keyName)) = ret.recs

----------------------------------------------------------------------------
(* C18 *)

\* the events of the given severity the last step sent to the logger
LoggedAt(level) == { i \in DOMAIN logged : logged[i].level = level }

\* C18 as stated: when a transaction body raised an error, the step that
\* re-raises it to the caller has emitted an event of error severity.
C18_Original == RolledBack => LoggedAt("error") # {}

\* C18: when a transaction body raised an error, the step that re-raises it
\* has emitted exactly one log event before the throw, of warn severity,
\* named transaction.rollback and carrying the error, and the error
\* re-raised is that same error; no event of error severity is emitted.
C18_RollbackWarns ==
    RolledBack =>
        /\ Len(logged) = 1
        /\ logged[1].level = "warn"
        /\ logged[1].event = "transaction.rollback"
        /\ logged[1].err = closed[1].raised
        /\ thrown = closed[1].raised
        /\ thrown # NoError

C18_Witness ==
    /\ RolledBack
    /\ LoggedAt("warn") = {1}
    /\ closed[1].frame.ops # <<>>
    /\ Depth = 0

----------------------------------------------------------------------------
(* C19: the parts of one filter node are conjoined, at every depth.        *)

\* the rule of the claim, read on its own: every sub-filter of $and matches,
\* at least one sub-filter of $or matches where there is an $or group, and
\* every named field check passes; the same rule inside the sub-filters
RECURSIVE Conjoined(_, _)
Conjoined(item, filter) ==
    /\ filter.and # <<>> =>
           \A i \in 1..Len(filter.and[1]) : Conjoined(item, filter.and[1][i])
    /\ filter.or # <<>> =>
           \E i \in 1..Len(filter.or[1]) : Conjoined(item, filter.or[1][i])
    /\ \A i \in 1..Len(filter.fields) : fieldCheck(item, filter.fields[i]) = "pass"

\* the records a query step gave the caller: none when it threw
Given == IF thrown = NoError THEN Range(ret.recs) ELSE {}

\* C19: the records a query without limit and offset gives the caller are
\* exactly the stored records for which every sub-filter of $and matches, at
\* least one sub-filter of $or matches and every named field check passes,
\* by the same rule at every depth
C19_Conjoined ==
    ( /\ lastOp.op = "query"
      /\ Unsliced(lastOp.item[1].options) )
    => Given = { r \in Range(MapValues(Entries)) : Conjoined(r, lastOp.item[1].filter) }

\* the part of C19 that holds: a query that returns gives exactly those
\* records
C19_ConjoinedWhereReturned ==
    ( /\ lastOp.op = "query"
      /\ Unsliced(lastOp.item[1].options)
      /\ thrown = NoError )
    => Range(ret.recs) =
          { r \in Range(MapValues(Entries)) : Conjoined(r, lastOp.item[1].filter) }

----------------------------------------------------------------------------
(* C20: operator dispatch follows the runtime kind of the record's value.  *)

\* the operators of the branch a value of the kind is checked in
OpsOf(kind) ==
    CASE kind = "str"  -> {"eq", "contains", "startsWith", "endsWith"}
      [] kind = "num"  -> {"eq", "lt", "lte", "gt", "gte", "between"}
      [] kind = "date" -> {"eq", "before", "after", "between"}
      [] OTHER         -> {"eq"}

\* a filter of one named field with operators, and no group
IsFieldFilter(filter) ==
    /\ ~filter.nil /\ filter.and = <<>> /\ filter.or = <<>>
    /\ Len(filter.fields) = 1 /\ filter.fields[1].ff # <<>>

\* the filter without the operators that are not of the kind
OnlyOps(filter, kind) ==
    LET ff == filter.fields[1].ff[1]
    IN  [filter EXCEPT !.fields[1].ff[1] = [o \in DOMAIN ff \cap OpsOf(kind) |-> ff[o]]]

\* C20: on every stored record a one-field filter decides as the same filter
\* without the operators that do not belong to the runtime kind of the
\* record's value; a record that lacks the field is checked against eq alone,
\* so a filter with no eq for the field matches it, and a query that returns
\* returns it
C20_Dispatch ==
    ( /\ lastOp.op = "query"
      /\ Unsliced(lastOp.item[1].options)
      /\ IsFieldFilter(lastOp.item[1].filter) )
    => LET filter == lastOp.item[1].filter
           entry == filter.fields[1]
       IN  \A r \in Range(MapValues(Entries)) :
              LET val == Field(r, entry.name)
              IN  /\ matchesFilter(r, filter) = matchesFilter(r, OnlyOps(filter, val.kind))
                  /\ (entry.name \notin DOMAIN r /\ ~HasOp(entry.ff[1], "eq")) =>
                        /\ matchesFilter(r, filter) = "true"
                        /\ thrown = NoError => r \in Range(ret.recs)
                  /\ (DOMAIN entry.ff[1] \cap OpsOf(val.kind) = {}) =>
                        matchesFilter(r, filter) = "true"

\* { age: { gte: 3 } } on a record of age 1 and a record without age: the
\* query returns the record without age alone
C20_Witness ==
    /\ lastOp.op = "query"
    /\ lastOp.item[1].options = NoOptions
    /\ lastOp.item[1].filter = FieldOp("age", "gte", Scalar(Num(3)))
    /\ { Field(r, "age") : r \in Range(MapValues(Entries)) } = { Num(1), Undefined }
    /\ thrown = NoError
    /\ Len(ret.recs) = 1
    /\ "age" \notin DOMAIN ret.recs[1]

----------------------------------------------------------------------------
(* C21: nested transactions on the same store roll back to their own       *)
(* start.                                                                  *)

\* one of the calls created a record at the nesting depth
CreatedAt(calls, depth) ==
    \E i \in 1..Len(calls) :
        calls[i].op = "create" /\ Field(calls[i].item[1], "age") = Num(depth)

\* C21: a transaction that raises, at any nesting depth, leaves the mapping
\* as it was at its own start; inside a body the mapping is the one at the
\* body's start with the body's own calls and those of the inner
\* transactions that committed applied, so an inner rollback keeps the outer
\* body's earlier mutations; and the snapshot of every open transaction
\* still holds the mapping at its start, so an outer rollback undoes what
\* inner transactions committed
C21_NestedRollback ==
    /\ RolledBack =>
          /\ Entries = closed[1].frame.pre
          /\ thrown = closed[1].raised
    /\ Depth > 0 => Entries = Replay(Top.pre, Top.ops)
    /\ \A i \in 1..Depth : heap[txStack[i].snapshot] = txStack[i].pre

\* the outer transaction has rolled back to the empty store it began with;
\* its body had created a record itself, had caught an error, and an inner
\* transaction had committed a record; of the two keys generated one was
\* for a create that an inner rollback had undone before
C21_Witness ==
    /\ RolledBack
    /\ Depth = 0
    /\ closed[1].frame.caught
    /\ Len(closed[1].frame.ops) = 2
    /\ CreatedAt(closed[1].frame.ops, 1)
    /\ CreatedAt(closed[1].frame.ops, 2)
    /\ Len(generated) = 2
    /\ Entries = <<>>

----------------------------------------------------------------------------
(* C22: calling transaction again from within a transaction body.          *)

\* C22 as stated: a transaction() call made inside a transaction body has
\* raised an error when it is over.
C22_Original == (closed # <<>> /\ Depth > 0) => thrown # NoError

\* C22: a transaction() call made inside a transaction body raises no error
\* of its own.  It begins with no error, with its own snapshot of the
\* current mapping; when its body returns it returns the body's result; when
\* its body raises it raises that same error again.
C22_NestedAccepted ==
    [][ /\ (lastOp'.op = "transaction" /\ Depth > 0) =>
              /\ thrown' = NoError
              /\ Depth' = Depth + 1
              /\ heap'[txStack'[Depth'].snapshot] = Entries
              /\ Entries' = Entries
        /\ (lastOp'.op = "transaction.commit" /\ Depth > 1) =>
              /\ thrown = NoError /\ thrown' = NoError
              /\ ret'.tag = "value"
              /\ ret'.v = closed'[1].res
        /\ (lastOp'.op = "transaction.rollback" /\ Depth > 1) =>
              /\ thrown # NoError
              /\ thrown' = thrown
      ]_vars

\* a transaction begun in a body has returned its body's result, with the
\* record its body created in the mapping
C22_Witness ==
    /\ Committed
    /\ Depth = 1
    /\ thrown = NoError
    /\ ret = RetValue(closed[1].res)
    /\ CreatedAt(closed[1].frame.ops, 2)
    /\ Entries # closed[1].frame.pre

----------------------------------------------------------------------------
(* C23: frame.  A successful create, update or delete changes only the     *)
(* entry of the targeted key; get, list and query never change the         *)
(* mapping, so a list or query with a sort field does not change the order *)
(* in which a later unsorted list returns the records.                     *)

\* the key a mutating call is aimed at: the key of the record create
\* returned, the key argument of update and delete
TargetKey == IF lastOp'.op = "create" THEN ret'.recs[1][keyName] ELSE lastOp'.key

\* every key but k is stored or not as before, with the same record
OthersKept(k) ==
    \A j \in (MapKeys(Entries) \cup MapKeys(Entries')) \ {k} :
        /\ MapHas(Entries, j) /\ MapHas(Entries', j)
        /\ MapGet(Entries', j) = MapGet(Entries, j)

\* C23: a create, update or delete that returns changes no entry but the one
\* of its key; get, list and query leave the mapping, the order of its
\* entries included, as it was, and a list without options returns the
\* records in that order
C23_Frame ==
    [][ /\ (lastOp'.op \in {"create", "update", "delete"} /\ thrown' = NoError) =>
              OthersKept(TargetKey)
        /\ lastOp'.op \in {"get", "list", "query"} =>
              /\ Entries' = Entries
              /\ map' = map
        /\ (lastOp'.op = "list" /\ lastOp'.item[1] = NoOptions) =>
              ret'.recs = MapValues(Entries)
      ]_vars

\* a list sorted by age, descending, has returned two records in the order
\* opposite to the mapping's, which still has them as they were inserted
C23_Witness ==
    /\ lastOp.op = "list"
    /\ lastOp.item[1].sortBy = <<"age">>
    /\ Len(Entries) = 2
    /\ ret.recs = << Entries[2].value, Entries[1].value >>
    /\ Entries[1].key = generated[1]
    /\ Entries[2].key = generated[2]

----------------------------------------------------------------------------
(* C24: without a sort field list and query return the records in the      *)
(* mapping's iteration order, the order of first insertion of the keys.    *)

KeyOrder(es) == [i \in 1..Len(es) |-> es[i].key]

\* the options of the list or query call the step made
OptionsOf(call) == IF call.op = "list" THEN call.item[1] ELSE call.item[1].options

\* recs are records of es, in the order es has them
InMapOrder(recs, es) ==
    recs = SelectSeq(MapValues(es), LAMBDA r : r \in { recs[i] : i \in 1..Len(recs) })

\* C24: a list or query without a sort field returns records in the order
\* of the mapping, list all of them; that order is the order of insertion:
\* a create puts its key last, also a key that was deleted before; an update
\* keeps every key at its position; a delete takes its key out and keeps the
\* others in order; a rollback gives the pre-transaction order; no other
\* step changes the order
C24_Order ==
    [][ /\ ( /\ lastOp'.op \in {"list", "query"}
              /\ thrown' = NoError
              /\ OptionsOf(lastOp').sortBy = <<>> ) =>
              /\ InMapOrder(ret'.recs, Entries)
              /\ (lastOp'.op = "list" /\ Unsliced(OptionsOf(lastOp'))) =>
                    ret'.recs = MapValues(Entries)
        /\ (lastOp'.op = "create" /\ thrown' = NoError) =>
              KeyOrder(Entries') = Append(KeyOrder(Entries), TargetKey)
        /\ (lastOp'.op = "update" /\ thrown' = NoError) =>
              KeyOrder(Entries') = KeyOrder(Entries)
        /\ lastOp'.op = "delete" =>
              KeyOrder(Entries') = SelectSeq(KeyOrder(Entries), LAMBDA k : k # lastOp'.key)
        /\ lastOp'.op = "transaction.rollback" =>
              KeyOrder(Entries') = KeyOrder(closed'[1].frame.pre)
        /\ lastOp'.op \notin {"create", "update", "delete", "clear", "transaction.rollback"} =>
              KeyOrder(Entries') = KeyOrder(Entries)
      ]_vars

\* an unsorted list returns first the record of the caller's key, created
\* before the other and updated since, and last the record of a generated
\* key
C24_Witness ==
    /\ lastOp.op = "list"
    /\ lastOp.item[1] = NoOptions
    /\ Len(Entries) = 2
    /\ ret.recs = MapValues(Entries)
    /\ Entries[1].key \in UserKeys
    /\ "city" \in DOMAIN Entries[1].value
    /\ Entries[2].key = generated[Len(generated)]
    /\ "city" \notin DOMAIN Entries[2].value

----------------------------------------------------------------------------
(* C25: empty groups.                                                      *)

OnlyEmptyOr == Filter(<<>>, << <<>> >>, <<>>)
OnlyEmptyAnd == Filter(<< <<>> >>, <<>>, <<>>)

\* C25: a filter whose $or group is an empty list matches no stored record,
\* whatever else it holds, and query({$or: []}) returns an empty sequence;
\* a filter that holds an empty $and group and nothing else matches every
\* stored record, and the query returns them all
C25_EmptyGroups ==
    lastOp.op = "query" =>
        LET filter == lastOp.item[1].filter
            stored == MapValues(Entries)
        IN  /\ (~filter.nil /\ filter.or = << <<>> >>) =>
                  /\ \A i \in 1..Len(stored) : matchesFilter(stored[i], filter) # "true"
                  /\ thrown = NoError => ret = RetList(<<>>)
            /\ filter = OnlyEmptyOr =>
                  /\ thrown = NoError
                  /\ ret = RetList(<<>>)
            /\ filter = OnlyEmptyAnd =>
                  /\ \A i \in 1..Len(stored) : matchesFilter(stored[i], filter) = "true"
                  /\ thrown = NoError
                  /\ Unsliced(lastOp.item[1].options) =>
                        /\ Len(ret.recs) = Len(stored)
                        /\ Range(ret.recs) = Range(stored)

\* query({$or: []}) has returned an empty sequence from a store of two
\* records
C25_Witness ==
    /\ lastOp.op = "query"
    /\ lastOp.item[1].filter = OnlyEmptyOr
    /\ lastOp.item[1].options = NoOptions
    /\ Len(Entries) = 2
    /\ thrown = NoError
    /\ ret = RetList(<<>>)

----------------------------------------------------------------------------
(* C26: log events follow the outcome of each operation.                   *)

\* the step emitted one event, of the level and the name, and the logger
\* found the mapping as the step left it
OneEvent(level, event) ==
    /\ Len(logged) = 1
    /\ logged[1].level = level
    /\ logged[1].event = event
    /\ logged[1].seen = Entries

\* C26: a create, update, delete or clear that returns has emitted exactly
\* one informational event, after it changed the mapping; a get has emitted
\* exactly one debug event; a create or update that raised has emitted
\* none; the step that ends a transaction emits exactly one event, the
\* closing one, and the steps that begin it, throw in its body or catch
\* emit none, so the closing event follows every event of the body
C26_LogEvents ==
    /\ (lastOp.op \in {"create", "update"} /\ thrown = NoError) =>
          /\ OneEvent("info", lastOp.op)
          /\ logged[1].key = ret.recs[1][keyName]
    /\ (lastOp.op \in {"create", "update"} /\ thrown # NoError) => logged = <<>>
    /\ lastOp.op = "delete" =>
          /\ OneEvent("info", "delete")
          /\ logged[1].key = lastOp.key
          /\ logged[1].existed = ret.b
    /\ lastOp.op = "clear" => OneEvent("info", "clear")
    /\ lastOp.op = "get" =>
          /\ OneEvent("debug", "get")
          /\ logged[1].key = lastOp.key
    /\ Committed => OneEvent("info", "transaction.commit")
    /\ RolledBack => (Len(logged) = 1 /\ logged[1].event = "transaction.rollback")
    /\ lastOp.op \in {"transaction", "throw", "catch"} => logged = <<>>
    /\ (closed # <<>>) = (lastOp.op \in {"transaction.commit", "transaction.rollback"})

\* an update in a transaction body has emitted its one informational event,
\* and the logger found the patched record in the mapping
C26_Witness ==
    /\ lastOp.op = "update"
    /\ thrown = NoError
    /\ Depth > 0
    /\ Len(logged) = 1
    /\ logged[1].level = "info"
    /\ logged[1].seen = Entries
    /\ logged[1].seen # Top.pre

====
